---- MODULE Spec2Model ----
(***************************************************************************)
(* A model of bakins/dictionary: a hashed dictionary that keeps one        *)
(* container/list chain per bucket.  The model follows the hash-gated      *)
(* version of the package (the one whose keys satisfy Hash/Equal and whose *)
(* items cache the hash).  A chain is a sequence of items, front first;    *)
(* a list element is its index in the sequence (0 stands for nil).         *)
(***************************************************************************)
EXTENDS Integers, Sequences, FiniteSets, TLC

\* Keys are the test suite's intKey values -1, 0, ..., MaxKey: 1 and -1
\* share a hash without being Equal.
MaxKey == 1

\* Values are 1..MaxVal.
MaxVal == 2

\* New's default number of buckets.
DefaultBuckets == 31

\* The bucket counts the model constructs dictionaries with: one bucket
\* (every key collides), two, and the default.
BucketCounts == {1, 2, DefaultBuckets}

\* Go's nil, as a value returned by Get and Delete.
Nil == 0

KeySet == {-1} \cup 0..MaxKey

Values == 1..MaxVal

\* The nil Hasher: the zero value of the elements of the slice Keys makes.
NilKey == MaxKey + 1

\* The nil error, and the error a visitor returns for a key.
NoErr == <<>>

VisitErr(key) == <<key>>

VARIABLES
    numBuckets,  \* Dictionary.numBuckets
    buckets,     \* Dictionary.buckets: buckets[n + 1] is the chain of index n
    last,        \* the most recent call, its arguments and what it returned
    prevSet,     \* the value of the call before `last` when that call was a
                 \* Set of last.key, else Nil
    stored,      \* history: stored[k] is the value of the most recent Set(k, _)
                 \* not followed by a Delete(k) that found k, else Nil
    net,         \* history: Sets of a key not then stored minus Deletes that
                 \* returned found = true
    other,       \* a second Dictionary, given the same calls as the first
    otherRet,    \* what the most recent Get or Delete of `other` returned
    itemPool,    \* sorted variant: the items held by the package's itemPool
    items,       \* sorted variant: the heap of item records, by address
    dicts,       \* sorted variant: the Dictionary of each goroutine, its
                 \* chains holding item addresses
    local,       \* sorted variant: where each goroutine is in its call, the
                 \* call's arguments and locals, and what it returned
    ref          \* history: the key-to-value mapping each goroutine's calls
                 \* have built, kept without any pool

\* The variables of the one dictionary, and of the second one.
dictVars == <<numBuckets, buckets, last, prevSet, stored, net>>

pairVars == <<other, otherRet>>

\* The variables of the sorted, pooled variant of the package.
poolVars == <<itemPool, items, dicts, local, ref>>

vars == <<dictVars, pairVars, poolVars>>

\* The dictionary as one value.
D == [numBuckets |-> numBuckets, buckets |-> buckets]

----------------------------------------------------------------------------
\* intKey: Hash is the absolute value (the keys of the model are far below
\* MaxUint32, where uint32(i) is i), Equal is equality of the integers.
Hash(i) == IF i < 0 THEN -i ELSE i

Equal(i, v) == i = v

\* container/list, on sequences.
PushFront(l, v) == <<v>> \o l

Remove(l, e) == SubSeq(l, 1, e - 1) \o SubSeq(l, e + 1, Len(l))

\* New(SetBuckets(n)): n empty chains.
New(n) == [numBuckets |-> n, buckets |-> [b \in 1..n |-> <<>>]]

\* getBucket that reduces the key itself, not its hash, modulo numBuckets.
getBucket_ByKey(d, key) ==
    LET h == Hash(key)
        n == key % d.numBuckets
    IN  [h |-> h, n |-> n + 1]

\* getBucket: the hash and the (1-based) place of the chain h % numBuckets.
getBucket(d, key) ==
    LET h == Hash(key)
        n == h % d.numBuckets
    IN  [h |-> h, n |-> n + 1]

\* SetScan without the call of Equal: the cached hash alone decides.
RECURSIVE SetScan_HashOnly(_, _, _, _)
SetScan_HashOnly(bucket, e, h, key) ==
    IF e > Len(bucket) THEN 0
    ELSE IF bucket[e].hash = h THEN e
    ELSE SetScan_HashOnly(bucket, e + 1, h, key)

\* SetScan that takes the front of the chain for a match, as a loop does
\* that compares what every element of a chain shares.
SetScan_FrontMatches(bucket, e, h, key) == IF e > Len(bucket) THEN 0 ELSE e

\* The loop of Set: the first element from e on whose cached hash is h and
\* whose key is Equal to key; 0 when the loop ends without one.
RECURSIVE SetScan(_, _, _, _)
SetScan(bucket, e, h, key) ==
    IF e > Len(bucket) THEN 0
    ELSE IF bucket[e].hash = h /\ Equal(key, bucket[e].key) THEN e
    ELSE SetScan(bucket, e + 1, h, key)

\* Set without the PushFront that follows the loop: a key not found in a
\* chain that is not empty is not added.
Set_MissNotAdded(d, key, val) ==
    LET gb == getBucket(d, key)
        bucket == d.buckets[gb.n]
        i == [hash |-> gb.h, key |-> key, value |-> val]
    IN  IF Len(bucket) = 0
        THEN [d EXCEPT !.buckets[gb.n] = PushFront(bucket, i)]
        ELSE LET e == SetScan(bucket, 1, gb.h, key)
             IN  IF e # 0 THEN [d EXCEPT !.buckets[gb.n][e] = i] ELSE d

\* Set without the loop: the item is always pushed to the front.
Set_AlwaysPushFront(d, key, val) ==
    LET gb == getBucket(d, key)
        i == [hash |-> gb.h, key |-> key, value |-> val]
    IN  [d EXCEPT !.buckets[gb.n] = PushFront(@, i)]

\* Set that, on a match, removes the element and pushes the item to the front.
Set_ReplaceMovesToFront(d, key, val) ==
    LET gb == getBucket(d, key)
        bucket == d.buckets[gb.n]
        i == [hash |-> gb.h, key |-> key, value |-> val]
        e == SetScan(bucket, 1, gb.h, key)
    IN  IF e # 0
        THEN [d EXCEPT !.buckets[gb.n] = PushFront(Remove(bucket, e), i)]
        ELSE [d EXCEPT !.buckets[gb.n] = PushFront(bucket, i)]

\* Set that adds a key not found with PushBack.
Set_PushBack(d, key, val) ==
    LET gb == getBucket(d, key)
        bucket == d.buckets[gb.n]
        i == [hash |-> gb.h, key |-> key, value |-> val]
        e == SetScan(bucket, 1, gb.h, key)
    IN  IF e # 0
        THEN [d EXCEPT !.buckets[gb.n][e] = i]
        ELSE [d EXCEPT !.buckets[gb.n] = Append(bucket, i)]

\* Set: the dictionary after Set(key, val).
Set(d, key, val) ==
    LET gb == getBucket(d, key)
        bucket == d.buckets[gb.n]
        i == [hash |-> gb.h, key |-> key, value |-> val]
    IN  IF Len(bucket) = 0
        THEN [d EXCEPT !.buckets[gb.n] = PushFront(bucket, i)]
        ELSE LET e == SetScan(bucket, 1, gb.h, key)
             IN  IF e # 0
                 THEN [d EXCEPT !.buckets[gb.n][e] = i]
                 ELSE [d EXCEPT !.buckets[gb.n] = PushFront(bucket, i)]

\* getElementScan without the call of Equal.
RECURSIVE getElementScan_HashOnly(_, _, _, _)
getElementScan_HashOnly(bucket, e, h, key) ==
    IF e > Len(bucket) THEN 0
    ELSE IF bucket[e].hash = h THEN e
    ELSE getElementScan_HashOnly(bucket, e + 1, h, key)

\* The loop of getElement, as SetScan.
RECURSIVE getElementScan(_, _, _, _)
getElementScan(bucket, e, h, key) ==
    IF e > Len(bucket) THEN 0
    ELSE IF bucket[e].hash = h /\ Equal(key, bucket[e].key) THEN e
    ELSE getElementScan(bucket, e + 1, h, key)

\* getElement: the chain and the element of key; (0, 0) is (nil, nil).
getElement(d, key) ==
    LET gb == getBucket(d, key)
        e == getElementScan(d.buckets[gb.n], 1, gb.h, key)
    IN  IF e # 0 THEN [bucket |-> gb.n, e |-> e] ELSE [bucket |-> 0, e |-> 0]

\* Get: <<value, found>>.
Get(d, key) ==
    LET ge == getElement(d, key)
    IN  IF ge.bucket = 0 \/ ge.e = 0
        THEN <<Nil, FALSE>>
        ELSE <<d.buckets[ge.bucket][ge.e].value, TRUE>>

\* Delete without bucket.Remove(e): the value is returned, the element stays.
Delete_NotUnlinked(d, key) ==
    LET ge == getElement(d, key)
    IN  IF ge.bucket = 0 \/ ge.e = 0
        THEN [d |-> d, ret |-> <<Nil, FALSE>>]
        ELSE [d |-> d, ret |-> <<d.buckets[ge.bucket][ge.e].value, TRUE>>]

\* Delete that removes bucket.Front() in place of e.
Delete_RemovesFront(d, key) ==
    LET ge == getElement(d, key)
    IN  IF ge.bucket = 0 \/ ge.e = 0
        THEN [d |-> d, ret |-> <<Nil, FALSE>>]
        ELSE LET v == d.buckets[ge.bucket][ge.e].value
             IN  [d |-> [d EXCEPT !.buckets[ge.bucket] = Remove(@, 1)],
                  ret |-> <<v, TRUE>>]

\* Delete that calls Remove on the first chain, not on the chain of e.
Delete_FromFirstBucket(d, key) ==
    LET ge == getElement(d, key)
    IN  IF ge.bucket = 0 \/ ge.e = 0
        THEN [d |-> d, ret |-> <<Nil, FALSE>>]
        ELSE LET v == d.buckets[ge.bucket][ge.e].value
             IN  [d |-> [d EXCEPT !.buckets[1] = Remove(@, ge.e)],
                  ret |-> <<v, TRUE>>]

\* Delete: the dictionary after Delete(key) and what the call returns.
Delete(d, key) ==
    LET ge == getElement(d, key)
    IN  IF ge.bucket = 0 \/ ge.e = 0
        THEN [d |-> d, ret |-> <<Nil, FALSE>>]
        ELSE LET v == d.buckets[ge.bucket][ge.e].value
             IN  [d |-> [d EXCEPT !.buckets[ge.bucket] = Remove(@, ge.e)],
                  ret |-> <<v, TRUE>>]

----------------------------------------------------------------------------
\* An EachFunc of the model: it returns VisitErr(key) for the keys of failOn
\* and nil for the others.
Visit(failOn, key, value) == IF key \in failOn THEN VisitErr(key) ELSE NoErr

\* Each whose inner loop never takes e.Next(): the front of each chain only.
RECURSIVE EachLoop_FrontOnly(_, _, _, _, _)
EachLoop_FrontOnly(d, n, e, failOn, visited) ==
    IF n > Len(d.buckets) THEN [visited |-> visited, err |-> NoErr]
    ELSE IF e > Len(d.buckets[n])
    THEN EachLoop_FrontOnly(d, n + 1, 1, failOn, visited)
    ELSE LET i == d.buckets[n][e]
             err == Visit(failOn, i.key, i.value)
             seen == Append(visited, <<i.key, i.value>>)
         IN  IF err # NoErr
             THEN [visited |-> seen, err |-> err]
             ELSE EachLoop_FrontOnly(d, n + 1, 1, failOn, seen)

\* Each that drops the visitor's error and goes on.
RECURSIVE EachLoop_IgnoresError(_, _, _, _, _)
EachLoop_IgnoresError(d, n, e, failOn, visited) ==
    IF n > Len(d.buckets) THEN [visited |-> visited, err |-> NoErr]
    ELSE IF e > Len(d.buckets[n])
    THEN EachLoop_IgnoresError(d, n + 1, 1, failOn, visited)
    ELSE LET i == d.buckets[n][e]
         IN  EachLoop_IgnoresError(d, n, e + 1, failOn,
                                   Append(visited, <<i.key, i.value>>))

\* Each: the calls of the visitor, in order, and the error returned.  n is
\* the chain being ranged over, e the element of it.
RECURSIVE EachLoop(_, _, _, _, _)
EachLoop(d, n, e, failOn, visited) ==
    IF n > Len(d.buckets) THEN [visited |-> visited, err |-> NoErr]
    ELSE IF e > Len(d.buckets[n]) THEN EachLoop(d, n + 1, 1, failOn, visited)
    ELSE LET i == d.buckets[n][e]
             err == Visit(failOn, i.key, i.value)
             seen == Append(visited, <<i.key, i.value>>)
         IN  IF err # NoErr
             THEN [visited |-> seen, err |-> err]
             ELSE EachLoop(d, n, e + 1, failOn, seen)

Each(d, failOn) == EachLoop(d, 1, 1, failOn, <<>>)

\* The first loop of Keys with len = bucket.Len() in place of the sum.
RECURSIVE KeysLen_NoSum(_, _, _)
KeysLen_NoSum(d, n, len) ==
    IF n > Len(d.buckets) THEN len
    ELSE KeysLen_NoSum(d, n + 1, Len(d.buckets[n]))

\* Keys, first loop: the sum of the chains' lengths.
RECURSIVE KeysLen(_, _, _)
KeysLen(d, n, len) ==
    IF n > Len(d.buckets) THEN len
    ELSE KeysLen(d, n + 1, len + Len(d.buckets[n]))

\* The second loop of Keys with i set to 0 at every chain.
RECURSIVE KeysFill_IndexPerChain(_, _, _, _, _)
KeysFill_IndexPerChain(d, n, e, i, keys) ==
    IF n > Len(d.buckets) THEN keys
    ELSE IF e > Len(d.buckets[n])
    THEN KeysFill_IndexPerChain(d, n + 1, 1, 0, keys)
    ELSE KeysFill_IndexPerChain(d, n, e + 1, i + 1,
                                [keys EXCEPT ![i + 1] = d.buckets[n][e].key])

\* Keys, second loop: keys[i] is written for each element, i counted from 0.
RECURSIVE KeysFill(_, _, _, _, _)
KeysFill(d, n, e, i, keys) ==
    IF n > Len(d.buckets) THEN keys
    ELSE IF e > Len(d.buckets[n]) THEN KeysFill(d, n + 1, 1, i, keys)
    ELSE KeysFill(d, n, e + 1, i + 1,
                  [keys EXCEPT ![i + 1] = d.buckets[n][e].key])

Keys(d) ==
    LET len == KeysLen(d, 1, 0)
        keys == [i \in 1..len |-> NilKey]
    IN  KeysFill(d, 1, 1, 0, keys)

----------------------------------------------------------------------------
\* The sorted variant is not part of the program: no item, no dictionary of
\* it, no goroutine using it.
NoPool ==
    /\ itemPool = {}
    /\ items = <<>>
    /\ dicts = <<>>
    /\ local = <<>>
    /\ ref = <<>>

\* No second dictionary: a nil *Dictionary, and nothing returned by it.
NoOther == other = Nil /\ otherRet = <<Nil, FALSE>> /\ NoPool

\* A step of a program that has the one dictionary only.
Alone == UNCHANGED <<pairVars, poolVars>>

\* The record of a call.
Call(op, key, val, ret, failOn, visited, err, keys) ==
    [op |-> op, key |-> key, val |-> val, ret |-> ret[1], found |-> ret[2],
     failOn |-> failOn, visited |-> visited, err |-> err, keys |-> keys]

\* The value of the preceding call when it was a Set of key.
SetBefore(key) == IF last.op = "Set" /\ last.key = key THEN last.val ELSE Nil

Init ==
    /\ \E n \in BucketCounts :
          /\ numBuckets = New(n).numBuckets
          /\ buckets = New(n).buckets
    /\ last = Call("New", NilKey, Nil, <<Nil, FALSE>>, {}, <<>>, NoErr, <<>>)
    /\ prevSet = Nil
    /\ stored = [k \in KeySet |-> Nil]
    /\ net = 0
    /\ NoOther

CallSet(key, val) ==
    /\ buckets' = Set(D, key, val).buckets
    /\ last' = Call("Set", key, val, <<Nil, FALSE>>, {}, <<>>, NoErr, <<>>)
    /\ prevSet' = SetBefore(key)
    /\ stored' = [stored EXCEPT ![key] = val]
    /\ net' = IF stored[key] = Nil THEN net + 1 ELSE net
    /\ UNCHANGED numBuckets

\* Get that moves the element it finds to the front of its chain.
CallGet_MoveToFront(key) ==
    LET ge == getElement(D, key)
    IN  /\ last' = Call("Get", key, Nil, Get(D, key), {}, <<>>, NoErr, <<>>)
        /\ prevSet' = SetBefore(key)
        /\ buckets' = IF ge.e = 0 THEN buckets
                      ELSE [buckets EXCEPT ![ge.bucket] =
                               PushFront(Remove(@, ge.e), @[ge.e])]
        /\ UNCHANGED <<numBuckets, stored, net>>

CallGet(key) ==
    /\ last' = Call("Get", key, Nil, Get(D, key), {}, <<>>, NoErr, <<>>)
    /\ prevSet' = SetBefore(key)
    /\ UNCHANGED <<numBuckets, buckets, stored, net>>

CallDelete(key) ==
    LET r == Delete(D, key)
    IN  /\ buckets' = r.d.buckets
        /\ last' = Call("Delete", key, Nil, r.ret, {}, <<>>, NoErr, <<>>)
        /\ prevSet' = SetBefore(key)
        /\ stored' = IF r.ret[2] THEN [stored EXCEPT ![key] = Nil] ELSE stored
        /\ net' = IF r.ret[2] THEN net - 1 ELSE net
        /\ UNCHANGED numBuckets

CallEach(failOn) ==
    LET r == Each(D, failOn)
    IN  /\ last' = Call("Each", NilKey, Nil, <<Nil, FALSE>>, failOn,
                        r.visited, r.err, <<>>)
        /\ prevSet' = Nil
        /\ UNCHANGED <<numBuckets, buckets, stored, net>>

CallKeys ==
    /\ last' = Call("Keys", NilKey, Nil, <<Nil, FALSE>>, {}, <<>>, NoErr,
                    Keys(D))
    /\ prevSet' = Nil
    /\ UNCHANGED <<numBuckets, buckets, stored, net>>

Next ==
    \/ \E key \in KeySet, val \in Values : CallSet(key, val) /\ Alone
    \/ \E key \in KeySet : CallGet(key) /\ Alone
    \/ \E key \in KeySet : CallDelete(key) /\ Alone
    \/ \E failOn \in SUBSET KeySet : CallEach(failOn) /\ Alone
    \/ CallKeys /\ Alone

Spec == Init /\ [][Next]_vars

----------------------------------------------------------------------------
\* Every construction the package allows: SetBuckets takes any uint32, 0
\* included, and New makes that many chains.

\* getBucket's h % d.numBuckets is an integer division by zero, a run-time
\* panic, when numBuckets is 0.
getBucketPanics(d) == d.numBuckets = 0

\* The panic of a call: the chains are as they were and the program stops.
Panic(key, val) ==
    /\ last' = Call("panic", key, val, <<Nil, FALSE>>, {}, <<>>, NoErr, <<>>)
    /\ prevSet' = Nil
    /\ UNCHANGED <<numBuckets, buckets, stored, net>>
    /\ Alone

Running == last.op # "panic"

ZeroInit ==
    /\ \E n \in BucketCounts \cup {0} :
          /\ numBuckets = New(n).numBuckets
          /\ buckets = New(n).buckets
    /\ last = Call("New", NilKey, Nil, <<Nil, FALSE>>, {}, <<>>, NoErr, <<>>)
    /\ prevSet = Nil
    /\ stored = [k \in KeySet |-> Nil]
    /\ net = 0
    /\ NoOther

ZeroSet(key, val) ==
    /\ Running
    /\ IF getBucketPanics(D) THEN Panic(key, val) ELSE CallSet(key, val) /\ Alone

ZeroGet(key) ==
    /\ Running
    /\ IF getBucketPanics(D) THEN Panic(key, Nil) ELSE CallGet(key) /\ Alone

ZeroDelete(key) ==
    /\ Running
    /\ IF getBucketPanics(D) THEN Panic(key, Nil)
       ELSE CallDelete(key) /\ Alone

ZeroEach(failOn) == Running /\ CallEach(failOn) /\ Alone

ZeroKeys == Running /\ CallKeys /\ Alone

ZeroNext ==
    \/ \E key \in KeySet, val \in Values : ZeroSet(key, val)
    \/ \E key \in KeySet : ZeroGet(key)
    \/ \E key \in KeySet : ZeroDelete(key)
    \/ \E failOn \in SUBSET KeySet : ZeroEach(failOn)
    \/ ZeroKeys

ZeroSpec == ZeroInit /\ [][ZeroNext]_vars

----------------------------------------------------------------------------
\* Two dictionaries built with different bucket counts and given the same
\* calls of Set, Get and Delete.
PairInit ==
    /\ \E n1, n2 \in BucketCounts :
          /\ n1 # n2
          /\ numBuckets = New(n1).numBuckets
          /\ buckets = New(n1).buckets
          /\ other = New(n2)
    /\ otherRet = <<Nil, FALSE>>
    /\ NoPool
    /\ last = Call("New", NilKey, Nil, <<Nil, FALSE>>, {}, <<>>, NoErr, <<>>)
    /\ prevSet = Nil
    /\ stored = [k \in KeySet |-> Nil]
    /\ net = 0

PairSet(key, val) ==
    /\ CallSet(key, val)
    /\ other' = Set(other, key, val)
    /\ otherRet' = <<Nil, FALSE>>
    /\ UNCHANGED poolVars

PairGet(key) ==
    /\ CallGet(key)
    /\ otherRet' = Get(other, key)
    /\ UNCHANGED <<other, poolVars>>

PairDelete(key) ==
    /\ CallDelete(key)
    /\ other' = Delete(other, key).d
    /\ otherRet' = Delete(other, key).ret
    /\ UNCHANGED poolVars

PairNext ==
    \/ \E key \in KeySet, val \in Values : PairSet(key, val)
    \/ \E key \in KeySet : PairGet(key)
    \/ \E key \in KeySet : PairDelete(key)

PairSpec == PairInit /\ [][PairNext]_vars

----------------------------------------------------------------------------
\* The sorted variant of the package: keys have Compare in place of Equal,
\* every chain is kept in ascending order, and the item records come from
\* and go back to one sync.Pool shared by every Dictionary of the process.

\* How many item records the heap has room for.
MaxItems == 4

\* How many items sync.Pool keeps at most before it drops one.
MaxPool == 1

\* The addresses of item records.
ItemIds == 1..MaxItems

\* The goroutines of the concurrent program, each with a Dictionary of its own.
Threads == {1, 2}

\* The keys the goroutines of the concurrent program use: two keys of the
\* same hash, hence of the same chain.
PoolKeys == {-1, 1}

\* The value goroutine t stores: its own number, so that a record written by
\* the other goroutine is told from its own.
ValuesOf(t) == {t}

\* The bucket count of the dictionaries of the concurrent program.
PoolBuckets == 2

\* The values the sequential program stores.
SortedValues == {1, 2}

\* The bucket counts of the sequential program: with one bucket every key is
\* in the same chain, with two the keys -1 and 1 share a chain.
SortedBuckets == {1, PoolBuckets}

\* intKey.Compare.
Compare(i, v) == IF i < v THEN -1 ELSE IF i = v THEN 0 ELSE 1

\* &item{}: the record the pool's New function returns.
ZeroItem == [key |-> NilKey, value |-> Nil]

\* list.InsertBefore and list.PushBack; e is the position of the mark.
InsertBefore(l, v, e) == SubSeq(l, 1, e - 1) \o <<v>> \o SubSeq(l, e, Len(l))

PushBack(l, v) == Append(l, v)

\* Dictionary.getBucket of the sorted variant: the index of the chain.
SortedGetBucket(d, key) == (Hash(key) % d.numBuckets) + 1

\* The item addresses a chain holds, those the chains of a dictionary hold,
\* and those the chains of any dictionary hold.
ItemsOf(l) == {l[p] : p \in 1..Len(l)}

ChainIds(d) == UNION {ItemsOf(d.buckets[n]) : n \in 1..d.numBuckets}

LinkedIds(ds) == UNION {ChainIds(ds[t]) : t \in DOMAIN ds}

\* The item addresses the goroutines hold in the local variable i.
HeldIds(loc) == {loc[t].i : t \in DOMAIN loc} \ {Nil}

\* The addresses no pool, chain or goroutine refers to.
FreeIds(pool, ds, loc) == ItemIds \ (pool \cup LinkedIds(ds) \cup HeldIds(loc))

\* A goroutine between two calls, with what its last call returned and what
\* a container without a pool returns for that call.
Idle(v, found, want) ==
    [pc |-> "idle", op |-> "none", key |-> NilKey, val |-> Nil, i |-> Nil,
     n |-> 0, e |-> 0, v |-> v, found |-> found, want |-> want]

\* What a container without a pool returns for key from the mapping m.
RefGet(m, key) == <<m[key], m[key] # Nil>>

\* A loop of Set that never inserts before an element: a key that is not in
\* the chain goes to its tail.
SortedSetScan_TailOnly(its, bucket, e, key) ==
    IF \E p \in e..Len(bucket) : Compare(key, its[bucket[p]].key) = 0
    THEN [case |-> "equal",
          e |-> CHOOSE p \in e..Len(bucket) :
                    Compare(key, its[bucket[p]].key) = 0]
    ELSE [case |-> "end", e |-> 0]

\* The loop of the sorted Set from position e on: where the scan stops and
\* on which case of the switch.
RECURSIVE SortedSetScan(_, _, _, _)
SortedSetScan(its, bucket, e, key) ==
    IF e > Len(bucket)
    THEN [case |-> "end", e |-> 0]
    ELSE LET c == Compare(key, its[bucket[e]].key)
         IN  IF c = -1 THEN [case |-> "less", e |-> e]
             ELSE IF c = 0 THEN [case |-> "equal", e |-> e]
             ELSE SortedSetScan(its, bucket, e + 1, key)

\* A loop of getElement that gives up at the first element the key is
\* greater than: Compare's result read the wrong way round.
RECURSIVE SortedGetElementScan_ExitOnGreater(_, _, _, _)
SortedGetElementScan_ExitOnGreater(its, bucket, e, key) ==
    IF e > Len(bucket)
    THEN 0
    ELSE LET c == Compare(key, its[bucket[e]].key)
         IN  IF c = 0 THEN e
             ELSE IF c = 1 THEN 0
             ELSE SortedGetElementScan_ExitOnGreater(its, bucket, e + 1, key)

\* The loop of the sorted getElement from position e on: the position of the
\* element with the key, or 0 for nil when it meets a greater key or the end.
RECURSIVE SortedGetElementScan(_, _, _, _)
SortedGetElementScan(its, bucket, e, key) ==
    IF e > Len(bucket)
    THEN 0
    ELSE LET c == Compare(key, its[bucket[e]].key)
         IN  IF c = 0 THEN e
             ELSE IF c = -1 THEN 0
             ELSE SortedGetElementScan(its, bucket, e + 1, key)

\* getElement: the chain index and the position, both 0 for (nil, nil).
SortedGetElement(its, d, key) ==
    LET n == SortedGetBucket(d, key)
        e == SortedGetElementScan(its, d.buckets[n], 1, key)
    IN  IF e = 0 THEN [n |-> 0, e |-> 0] ELSE [n |-> n, e |-> e]

\* The program of one goroutine with a dictionary of any bucket count.
SortedInit ==
    /\ numBuckets = Nil
    /\ buckets = <<>>
    /\ last = Call("New", NilKey, Nil, <<Nil, FALSE>>, {}, <<>>, NoErr, <<>>)
    /\ prevSet = Nil
    /\ stored = [k \in KeySet |-> Nil]
    /\ net = 0
    /\ other = Nil
    /\ otherRet = <<Nil, FALSE>>
    /\ itemPool = {}
    /\ items = [id \in ItemIds |-> ZeroItem]
    /\ \E n \in SortedBuckets : dicts = [t \in {1} |-> New(n)]
    /\ local = [t \in {1} |-> Idle(Nil, FALSE, <<Nil, FALSE>>)]
    /\ ref = [t \in {1} |-> [k \in KeySet |-> Nil]]

\* The program of two goroutines, each with a dictionary of its own.
PoolInit ==
    /\ numBuckets = Nil
    /\ buckets = <<>>
    /\ last = Call("New", NilKey, Nil, <<Nil, FALSE>>, {}, <<>>, NoErr, <<>>)
    /\ prevSet = Nil
    /\ stored = [k \in KeySet |-> Nil]
    /\ net = 0
    /\ other = Nil
    /\ otherRet = <<Nil, FALSE>>
    /\ itemPool = {}
    /\ items = [id \in ItemIds |-> ZeroItem]
    /\ dicts = [t \in Threads |-> New(PoolBuckets)]
    /\ local = [t \in Threads |->
                   Idle(Nil, FALSE, <<Nil, FALSE>>)]
    /\ ref = [t \in Threads |-> [k \in KeySet |-> Nil]]

\* A step of the sorted variant leaves the hash-gated dictionaries alone.
NotSorted == UNCHANGED <<dictVars, pairVars>>

\* The chains of a dictionary from index n on, one after the other.
RECURSIVE ChainSeq(_, _)
ChainSeq(d, n) ==
    IF n > d.numBuckets THEN <<>> ELSE d.buckets[n] \o ChainSeq(d, n + 1)

\* The elements of a set of addresses, in ascending order.
RECURSIVE Ascending(_)
Ascending(ids) ==
    IF ids = {}
    THEN <<>>
    ELSE LET m == CHOOSE i \in ids : \A j \in ids : i <= j
         IN  <<m>> \o Ascending(ids \ {m})

\* Every reference to an item there is, in a fixed order: the chains of the
\* goroutines' dictionaries, their local i, the pool.
RECURSIVE Refs(_, _, _, _)
Refs(pool, ds, loc, t) ==
    IF t \in DOMAIN ds
    THEN ChainSeq(ds[t], 1) \o
         (IF loc[t].i = Nil THEN <<>> ELSE <<loc[t].i>>) \o
         Refs(pool, ds, loc, t + 1)
    ELSE Ascending(pool)

\* The address a record is given: the program cannot tell one address from
\* another, so the records are numbered in the order of the first reference
\* to them, and memory nothing refers to is zeroed for the next allocation.
Rank(refs, id) ==
    LET first == CHOOSE p \in 1..Len(refs) :
                     refs[p] = id /\ \A q \in 1..(p - 1) : refs[q] # id
    IN  Cardinality({refs[q] : q \in 1..(first - 1)}) + 1

\* The heap after a step: item records that are referred to, renumbered.
Heap(pool, its, ds, loc) ==
    LET refs == Refs(pool, ds, loc, 1)
        used == ItemsOf(refs)
        R == [id \in used |-> Rank(refs, id)]
    IN  [itemPool |-> {R[id] : id \in pool},
         items |-> [j \in ItemIds |->
                       IF j <= Cardinality(used)
                       THEN its[CHOOSE id \in used : R[id] = j]
                       ELSE ZeroItem],
         dicts |-> [t \in DOMAIN ds |->
                       [numBuckets |-> ds[t].numBuckets,
                        buckets |-> [n \in 1..ds[t].numBuckets |->
                            [p \in 1..Len(ds[t].buckets[n]) |->
                                R[ds[t].buckets[n][p]]]]]],
         local |-> [t \in DOMAIN loc |->
                       IF loc[t].i = Nil THEN loc[t]
                       ELSE [loc[t] EXCEPT !.i = R[loc[t].i]]]]

\* The step that leaves the pool, the records, the dictionaries and the
\* goroutines as given.
Commit(pool, its, ds, loc) ==
    LET h == Heap(pool, its, ds, loc)
    IN  /\ itemPool' = h.itemPool
        /\ items' = h.items
        /\ dicts' = h.dicts
        /\ local' = h.local

\* What itemPool.Get may return: an item the pool holds, or the record its
\* New function allocates, at the lowest free address.
PoolGet(pool, ds, loc) ==
    LET free == FreeIds(pool, ds, loc)
    IN  pool \cup {id \in free : \A j \in free : id <= j}

\* What itemPool.Put(i) may leave in the pool: the pool with i, or, when it is
\* full, the pool without i or with i in place of an item it drops.
PoolPut(pool, i) ==
    IF Cardinality(pool \cup {i}) <= MaxPool
    THEN {pool \cup {i}}
    ELSE {pool} \cup {(pool \ {j}) \cup {i} : j \in pool}

\* A Set that puts the item it has just linked back in the pool.
Replaced_NewItem(i, v) == i

\* The item the replace case of Set puts back in the pool: the old one.
Replaced(i, v) == v

\* Set up to itemPool.Get: the chain is chosen and an item taken.
SetTake(t, key, val) ==
    /\ local[t].pc = "idle"
    /\ \E i \in PoolGet(itemPool, dicts, local) :
          Commit(itemPool \ {i}, items, dicts,
                 [local EXCEPT ![t] =
                     [pc |-> "write", op |-> "Set", key |-> key, val |-> val,
                      i |-> i, n |-> SortedGetBucket(dicts[t], key), e |-> 0,
                      v |-> Nil, found |-> FALSE, want |-> <<Nil, FALSE>>]])
    /\ UNCHANGED ref
    /\ NotSorted

\* Set: i.key = key; i.value = val.
SetWrite(t) ==
    /\ local[t].pc = "write"
    /\ Commit(itemPool,
              [items EXCEPT ![local[t].i] =
                  [key |-> local[t].key, value |-> local[t].val]],
              dicts,
              [local EXCEPT ![t].pc = "link"])
    /\ UNCHANGED ref
    /\ NotSorted

\* Set from the quick exit to the end of the loop: the item is linked and
\* Set returns, or, on an equal key, the old item is put in the pool.
SetLink(t) ==
    /\ local[t].pc = "link"
    /\ LET l == local[t]
           bucket == dicts[t].buckets[l.n]
           r == IF Len(bucket) = 0
                THEN [case |-> "empty", e |-> 0]
                ELSE SortedSetScan(items, bucket, 1, l.key)
           linked == IF r.case = "empty" THEN PushFront(bucket, l.i)
                     ELSE IF r.case = "less"
                          THEN InsertBefore(bucket, l.i, r.e)
                          ELSE PushBack(bucket, l.i)
       IN  IF r.case = "equal"
           THEN /\ \E pool \in PoolPut(itemPool, Replaced(l.i, bucket[r.e])) :
                      Commit(pool, items, dicts,
                             [local EXCEPT ![t].pc = "replace",
                                           ![t].e = r.e])
                /\ UNCHANGED ref
           ELSE /\ Commit(itemPool, items,
                          [dicts EXCEPT ![t].buckets[l.n] = linked],
                          [local EXCEPT ![t] =
                              Idle(Nil, FALSE, <<Nil, FALSE>>)])
                /\ ref' = [ref EXCEPT ![t][l.key] = l.val]
    /\ NotSorted

\* Set: e.Value = i, and the return.
SetReplace(t) ==
    /\ local[t].pc = "replace"
    /\ LET l == local[t]
       IN  /\ Commit(itemPool, items,
                     [dicts EXCEPT ![t].buckets[l.n][l.e] = l.i],
                     [local EXCEPT ![t] = Idle(Nil, FALSE, <<Nil, FALSE>>)])
           /\ ref' = [ref EXCEPT ![t][l.key] = l.val]
    /\ NotSorted

\* Get of the sorted variant, whole: it changes no dictionary.
SortedGet(t, key) ==
    /\ local[t].pc = "idle"
    /\ LET g == SortedGetElement(items, dicts[t], key)
           v == IF g.e = 0 THEN Nil
                ELSE items[dicts[t].buckets[g.n][g.e]].value
       IN  local' = [local EXCEPT ![t] =
                        Idle(v, g.e # 0, RefGet(ref[t], key))]
    /\ UNCHANGED <<itemPool, items, dicts, ref>>
    /\ NotSorted

\* Delete up to v := i.value: the element is looked up; without it Delete
\* returns (nil, false).
DeleteFind(t, key) ==
    /\ local[t].pc = "idle"
    /\ LET g == SortedGetElement(items, dicts[t], key)
       IN  IF g.e = 0
           THEN /\ local' = [local EXCEPT ![t] =
                                Idle(Nil, FALSE, RefGet(ref[t], key))]
                /\ UNCHANGED <<itemPool, items, dicts>>
           ELSE Commit(itemPool, items, dicts,
                       [local EXCEPT ![t] =
                           [pc |-> "put", op |-> "Delete", key |-> key,
                            val |-> Nil, i |-> dicts[t].buckets[g.n][g.e],
                            n |-> g.n, e |-> g.e,
                            v |-> items[dicts[t].buckets[g.n][g.e]].value,
                            found |-> FALSE, want |-> <<Nil, FALSE>>]])
    /\ UNCHANGED ref
    /\ NotSorted

\* Delete: itemPool.Put(i).
DeletePut(t) ==
    /\ local[t].pc = "put"
    /\ \E pool \in PoolPut(itemPool, local[t].i) :
          Commit(pool, items, dicts, [local EXCEPT ![t].pc = "remove"])
    /\ UNCHANGED ref
    /\ NotSorted

\* Delete: bucket.Remove(e), and the return of (v, true).
DeleteRemove(t) ==
    /\ local[t].pc = "remove"
    /\ LET l == local[t]
       IN  /\ Commit(itemPool, items,
                     [dicts EXCEPT ![t].buckets[l.n] =
                         Remove(dicts[t].buckets[l.n], l.e)],
                     [local EXCEPT ![t] =
                         Idle(l.v, TRUE, RefGet(ref[t], l.key))])
           /\ ref' = [ref EXCEPT ![t][l.key] = Nil]
    /\ NotSorted

\* sync.Pool drops an item it holds, as it may at any time.
PoolDrop ==
    /\ \E i \in itemPool : Commit(itemPool \ {i}, items, dicts, local)
    /\ UNCHANGED ref
    /\ NotSorted

\* The steps of goroutine t that continue the call it is in.
Continue(t) ==
    \/ SetWrite(t)
    \/ SetLink(t)
    \/ SetReplace(t)
    \/ DeletePut(t)
    \/ DeleteRemove(t)

SortedNext ==
    \/ \E t \in DOMAIN dicts, key \in KeySet, val \in SortedValues :
          SetTake(t, key, val)
    \/ \E t \in DOMAIN dicts, key \in KeySet : SortedGet(t, key)
    \/ \E t \in DOMAIN dicts, key \in KeySet : DeleteFind(t, key)
    \/ \E t \in DOMAIN dicts : Continue(t)
    \/ PoolDrop

SortedSpec == SortedInit /\ [][SortedNext]_vars

PoolNext ==
    \/ \E t \in DOMAIN dicts, key \in PoolKeys :
          \E val \in ValuesOf(t) : SetTake(t, key, val)
    \/ \E t \in DOMAIN dicts, key \in PoolKeys : SortedGet(t, key)
    \/ \E t \in DOMAIN dicts, key \in PoolKeys : DeleteFind(t, key)
    \/ \E t \in DOMAIN dicts : Continue(t)
    \/ PoolDrop

PoolSpec == PoolInit /\ [][PoolNext]_vars

----------------------------------------------------------------------------
\* What the properties are stated with.

\* The chains one after the other, bucket 0 first, each front to back.
RECURSIVE Flatten(_, _)
Flatten(bs, n) == IF n > Len(bs) THEN <<>> ELSE bs[n] \o Flatten(bs, n + 1)

Entries(d) == Flatten(d.buckets, 1)

\* The chain a key hashes to.
ChainOf(d, key) == d.buckets[(Hash(key) % d.numBuckets) + 1]

\* Some chain holds an item with this key.
Linked(d, key) ==
    \E n \in 1..Len(d.buckets) :
        \E e \in 1..Len(d.buckets[n]) : d.buckets[n][e].key = key

StoredKeys == {k \in KeySet : stored[k] # Nil}

StoredPairs == {<<k, stored[k]>> : k \in StoredKeys}

Range(s) == {s[i] : i \in 1..Len(s)}

\* C1: in every reachable state, a Set(k, v) immediately followed by a
\* Get(k) makes that Get return (v, true).
C1_RoundTrip ==
    [][(last.op = "Set" /\ last'.op = "Get" /\ last'.key = last.key)
          => (last'.ret = last.val /\ last'.found)]_vars

\* A Get that follows the Set of its key, the key being in a chain with
\* another one, has returned the value set.
C1_Witness ==
    /\ last.op = "Get"
    /\ prevSet # Nil
    /\ last.found
    /\ last.ret = prevSet
    /\ Len(ChainOf(D, last.key)) >= 2

\* C2: every key whose most recent Set has not been deleted is found by Get
\* with the value of that Set, whatever other keys were set before or after
\* it and whatever chain they share.
C2_EveryKeyKeepsItsValue ==
    \A k \in KeySet : stored[k] # Nil => Get(D, k) = <<stored[k], TRUE>>

\* Three keys in one chain, not all with the same value, the last call a
\* Get that found its key.
C2_Witness ==
    /\ last.op = "Get"
    /\ last.found
    /\ last.ret = stored[last.key]
    /\ Len(ChainOf(D, last.key)) >= 3
    /\ \E k \in StoredKeys : stored[k] # last.ret

\* C3: a Set(k, v2) that immediately follows a Set(k, v1) leaves the number
\* of entries unchanged, and Get(k) then returns (v2, true).
C3_Replacement ==
    [][(last.op = "Set" /\ last'.op = "Set" /\ last'.key = last.key)
          => /\ Get(D', last'.key) = <<last'.val, TRUE>>
             /\ Len(Entries(D')) = Len(Entries(D))]_vars

\* A Set of a key right after a Set of the same key with another value, in
\* a chain of two or more.
C3_Witness ==
    /\ last.op = "Set"
    /\ prevSet # Nil
    /\ prevSet # last.val
    /\ Get(D, last.key) = <<last.val, TRUE>>
    /\ Len(ChainOf(D, last.key)) >= 2

\* C4: Get(k) returns (nil, false) for every key that was never Set or whose
\* most recent Set was followed by a Delete(k).
C4_Absence ==
    /\ \A k \in KeySet : stored[k] = Nil => Get(D, k) = <<Nil, FALSE>>
    /\ (last.op = "Get" /\ stored[last.key] = Nil)
          => (last.ret = Nil /\ ~last.found)

\* A Get that missed although its chain holds a key with the same hash.
C4_Witness ==
    /\ last.op = "Get"
    /\ ~last.found
    /\ last.ret = Nil
    /\ \E e \in 1..Len(ChainOf(D, last.key)) :
          ChainOf(D, last.key)[e].hash = Hash(last.key)

\* C5: Delete(k) of a stored key returns (its value, true) and unlinks the
\* entry; Delete(k) of a key not stored returns (nil, false).
C5_Delete ==
    [][last'.op = "Delete" =>
          IF stored[last'.key] # Nil
          THEN /\ last'.ret = stored[last'.key]
               /\ last'.found
               /\ ~Linked(D', last'.key)
               /\ Len(Entries(D')) = Len(Entries(D)) - 1
          ELSE /\ last'.ret = Nil
               /\ ~last'.found]_vars

\* A Delete that found its key and left other entries in the chain.
C5_Witness ==
    /\ last.op = "Delete"
    /\ last.found
    /\ last.ret # Nil
    /\ ~Linked(D, last.key)
    /\ Len(ChainOf(D, last.key)) >= 1

\* C6: after the Delete(k) of a stored key, Get(k) returns (nil, false) and
\* Get of every other key returns what it returned before the Delete.
C6_DeleteRemovesExactlyOne ==
    [][(last'.op = "Delete" /\ stored[last'.key] # Nil) =>
          /\ Get(D', last'.key) = <<Nil, FALSE>>
          /\ \A k2 \in KeySet \ {last'.key} :
                /\ Get(D', k2) = Get(D, k2)
                /\ stored[k2] # Nil => Get(D', k2) = <<stored[k2], TRUE>>]_vars

\* A Delete right after the Set of its key, from a chain that keeps two
\* other keys.
C6_Witness ==
    /\ last.op = "Delete"
    /\ prevSet # Nil
    /\ last.found
    /\ Get(D, last.key) = <<Nil, FALSE>>
    /\ Len(ChainOf(D, last.key)) >= 2
    /\ \A e \in 1..Len(ChainOf(D, last.key)) :
          Get(D, ChainOf(D, last.key)[e].key)[2]

\* C7: Each with a visitor that always returns nil calls it once for every
\* stored (key, value) pair and for nothing else, and returns nil.
C7_EachVisitsAll ==
    (last.op = "Each" /\ last.failOn = {}) =>
        /\ last.err = NoErr
        /\ Len(last.visited) = Cardinality(StoredPairs)
        /\ Range(last.visited) = StoredPairs

\* An Each with such a visitor over three entries.
C7_Witness ==
    /\ last.op = "Each"
    /\ last.failOn = {}
    /\ last.err = NoErr
    /\ Len(last.visited) >= 3

\* C8: Each stops at the first entry, in bucket and chain order, for which
\* the visitor returns an error, and returns that error; with no such entry
\* it visits every entry and returns nil.
C8_EachStopsOnError ==
    last.op = "Each" =>
        LET order == Entries(D)
            fails == {p \in 1..Len(order) : order[p].key \in last.failOn}
        IN  IF fails # {}
            THEN LET p == CHOOSE q \in fails : \A r \in fails : q <= r
                 IN  /\ last.err = VisitErr(order[p].key)
                     /\ last.visited =
                           [q \in 1..p |-> <<order[q].key, order[q].value>>]
            ELSE /\ last.err = NoErr
                 /\ last.visited =
                       [q \in 1..Len(order) |-> <<order[q].key, order[q].value>>]

\* An Each stopped by an error after a first entry, with a later entry left
\* unvisited for which the visitor would return another error.
C8_Witness ==
    /\ last.op = "Each"
    /\ last.err # NoErr
    /\ Len(last.visited) = 2
    /\ Len(Entries(D)) = 3
    /\ Entries(D)[3].key \in last.failOn

\* C9: Keys returns as many keys as there are entries, the i-th being the
\* key of the i-th entry Each visits, and no key twice.
C9_KeysInEachOrder ==
    last.op = "Keys" =>
        LET each == Each(D, {}).visited
        IN  /\ Len(last.keys) = Len(Entries(D))
            /\ Len(last.keys) = Len(each)
            /\ \A i \in 1..Len(last.keys) : last.keys[i] = each[i][1]
            /\ \A i, j \in 1..Len(last.keys) :
                  last.keys[i] = last.keys[j] => i = j

\* A call of Keys on two non-empty chains, three entries in all.
C9_Witness ==
    /\ last.op = "Keys"
    /\ Len(last.keys) = 3
    /\ Cardinality({n \in 1..Len(buckets) : Len(buckets[n]) > 0}) = 2

\* C10: the length of Keys() is the number of Sets of a key not then stored
\* minus the number of Deletes that returned found = true.
C10_KeysCardinality ==
    /\ Len(Keys(D)) = net
    /\ last.op = "Keys" => Len(last.keys) = net

\* A Set that replaced the value of a key, two keys being stored: Keys still
\* has the length the net insertions give.
C10_Witness ==
    /\ last.op = "Set"
    /\ prevSet # Nil
    /\ net = 2
    /\ Len(Keys(D)) = 2

\* The places (chain, element) of the items with this key.
Places(d, key) ==
    {<<n, e>> \in (1..Len(d.buckets)) \X (1..Cardinality(KeySet)) :
        e <= Len(d.buckets[n]) /\ Equal(key, d.buckets[n][e].key)}

\* The (1-based) place of the chain of index Hash(key) mod N.
HomeOf(d, key) == (Hash(key) % d.numBuckets) + 1

\* C13: in every reachable state no chain is longer than the number of
\* keys, every key is in at most one place, that place is in the chain of
\* index Hash(key) mod N, and the keys in a place are the stored ones.
C13_OneChainNoDuplicates ==
    /\ \A n \in 1..Len(buckets) : Len(buckets[n]) <= Cardinality(KeySet)
    /\ \A k \in KeySet :
          /\ Cardinality(Places(D, k)) <= 1
          /\ \A p \in Places(D, k) : p[1] = HomeOf(D, k)
          /\ (Places(D, k) # {}) <=> (stored[k] # Nil)

\* Two buckets, all of -1, 0 and 1 stored, after a Set that followed a Set of
\* the same key.
C13_Witness ==
    /\ numBuckets = 2
    /\ last.op = "Set"
    /\ prevSet # Nil
    /\ \A k \in {-1, 0, 1} : Places(D, k) # {}
    /\ Len(buckets[2]) >= 2

\* C14: a Set, Get or Delete of k leaves every chain but the one of index
\* Hash(k) mod N as it was, and the number of buckets as New made it.
C14_OtherChainsUntouched ==
    [][last'.op \in {"Set", "Get", "Delete"} =>
          /\ numBuckets' = numBuckets
          /\ Len(buckets') = Len(buckets)
          /\ Len(buckets') = numBuckets'
          /\ \A n \in 1..Len(buckets) :
                n # HomeOf(D, last'.key) => buckets'[n] = buckets[n]]_vars

\* A Delete that found its key in one chain while another chain holds an
\* entry.
C14_Witness ==
    /\ last.op = "Delete"
    /\ last.found
    /\ numBuckets = 2
    /\ Len(buckets[3 - HomeOf(D, last.key)]) >= 1

\* C15: a Get, and a Delete that does not find its key, leave every chain
\* as it was, so that Each and Keys give the same sequences.
C15_LookupsDoNotMutate ==
    [][(last'.op = "Get" \/ (last'.op = "Delete" /\ ~last'.found)) =>
          /\ buckets' = buckets
          /\ numBuckets' = numBuckets
          /\ Each(D', {}).visited = Each(D, {}).visited
          /\ Keys(D') = Keys(D)]_vars

\* A Get that found its key behind the front of its chain.
C15_Witness ==
    /\ last.op = "Get"
    /\ last.found
    /\ Len(ChainOf(D, last.key)) >= 2
    /\ ChainOf(D, last.key)[1].key # last.key

\* C16: a Set of a stored key keeps the length of its chain, the place of
\* the key and every other entry, so Each and Keys keep their order.
C16_ReplaceInPlace ==
    [][(last'.op = "Set" /\ stored[last'.key] # Nil) =>
          LET c == ChainOf(D, last'.key)
              c2 == ChainOf(D', last'.key)
          IN  /\ Len(c2) = Len(c)
              /\ \A e \in 1..Len(c) :
                    IF c[e].key = last'.key
                    THEN c2[e].key = last'.key /\ c2[e].value = last'.val
                    ELSE c2[e] = c[e]
              /\ Keys(D') = Keys(D)
              /\ [q \in 1..Len(Entries(D')) |-> Entries(D')[q].key]
                    = [q \in 1..Len(Entries(D)) |-> Entries(D)[q].key]]_vars

\* A Set that replaced the value of a key behind the front of its chain.
C16_Witness ==
    /\ last.op = "Set"
    /\ prevSet # Nil
    /\ prevSet # last.val
    /\ Len(ChainOf(D, last.key)) >= 2
    /\ ChainOf(D, last.key)[1].key # last.key
    /\ Get(D, last.key) = <<last.val, TRUE>>

\* C17: a Set of a key not stored puts its item, with the hash cached, at
\* the front of its chain, before the entries that were there, in their
\* order; a Set that replaces does so at an element whose cached hash is
\* Hash(k) and whose key is Equal to k.
C17_InsertAtFront ==
    [][last'.op = "Set" =>
          LET k == last'.key
              c == ChainOf(D, k)
              c2 == ChainOf(D', k)
              i == [hash |-> Hash(k), key |-> k, value |-> last'.val]
          IN  IF stored[k] = Nil
              THEN c2 = <<i>> \o c
              ELSE \E e \in 1..Len(c) :
                      /\ c[e].hash = Hash(k)
                      /\ Equal(k, c[e].key)
                      /\ c2 = [c EXCEPT ![e] = i]]_vars

\* A Set whose key is at the front of a chain of three that holds another
\* key with the same hash.
C17_Witness ==
    /\ last.op = "Set"
    /\ prevSet = Nil
    /\ Len(ChainOf(D, last.key)) = 3
    /\ ChainOf(D, last.key)[1].key = last.key
    /\ \E e \in 2..3 : ChainOf(D, last.key)[e].hash = Hash(last.key)

\* C12: whatever bucket count New is given, 0 included, no later Set, Get or
\* Delete divides the hash by a bucket count of zero.
C12_ZeroBucketsRejected == last.op # "panic"

\* The (key, value) pairs a dictionary holds.
Contents(d) == {<<Entries(d)[q].key, Entries(d)[q].value>> :
                   q \in 1..Len(Entries(d))}

\* C11: two dictionaries with different bucket counts, given the same Sets,
\* Gets and Deletes, return the same from every Get and Delete and hold the
\* same key-to-value mapping.
C11_BucketCountInvariance ==
    /\ last.op \in {"Get", "Delete"} => otherRet = <<last.ret, last.found>>
    /\ Contents(other) = Contents(D)
    /\ Len(Entries(other)) = Len(Entries(D))
    /\ \A k \in KeySet : Get(other, k) = Get(D, k)

\* After a Delete that found its key, two entries or more are left, in an order
\* that differs between the two dictionaries.
C11_Witness ==
    /\ last.op = "Delete"
    /\ last.found
    /\ otherRet = <<last.ret, TRUE>>
    /\ numBuckets # other.numBuckets
    /\ Len(Entries(D)) >= 2
    /\ [q \in 1..Len(Entries(D)) |-> Entries(D)[q].key]
          # [q \in 1..Len(Entries(other)) |-> Entries(other)[q].key]

\* The keys of the chain of index n - 1 of goroutine t's dictionary, front
\* to back, read through the item records.
ChainKeys(t, n) ==
    [p \in 1..Len(dicts[t].buckets[n]) |-> items[dicts[t].buckets[n][p]].key]

StrictlyAscending(ks) ==
    \A p \in 1..(Len(ks) - 1) : Compare(ks[p], ks[p + 1]) = -1

\* The step in which the Set of goroutine t links its item and returns.
SetReturns(t) ==
    /\ local[t].pc \in {"link", "replace"}
    /\ local'[t].pc = "idle"

\* C18: in the sorted variant every chain is strictly ascending under Compare
\* after every step of Set and Delete; a Set of a key not in its chain puts it
\* just before the first greater key, or at the tail when there is none, and
\* a Set of a key in the chain leaves every key where it was.
C18_ChainsAscending ==
    [][\A t \in DOMAIN dicts : \A n \in 1..dicts[t].numBuckets :
          /\ StrictlyAscending(ChainKeys(t, n)')
          /\ SetReturns(t) /\ n = local[t].n =>
                LET key == local[t].key
                    ks == ChainKeys(t, n)
                IN  IF \E p \in 1..Len(ks) : ks[p] = key
                    THEN ChainKeys(t, n)' = ks
                    ELSE \E e \in 1..(Len(ks) + 1) :
                            /\ ChainKeys(t, n)' = InsertBefore(ks, key, e)
                            /\ \A p \in 1..(e - 1) : Compare(key, ks[p]) = 1
                            /\ e <= Len(ks) => Compare(key, ks[e]) = -1]_vars

\* One chain holds the three keys, in ascending order, after a Set.
C18_Witness ==
    /\ local[1].pc = "idle"
    /\ dicts[1].numBuckets = 1
    /\ ChainKeys(1, 1) = <<-1, 0, 1>>
    /\ ref[1][0] # ref[1][1]

\* Whether the lookup of key in goroutine t's dictionary finds an element,
\* and whether the key's chain has an element with an equal key.
Finds(t, key) == SortedGetElement(items, dicts[t], key).e # 0

Present(t, key) ==
    \E p \in 1..Len(ChainKeys(t, SortedGetBucket(dicts[t], key))) :
        Compare(key, ChainKeys(t, SortedGetBucket(dicts[t], key))[p]) = 0

\* C19: in every state the sorted variant reaches by Set and Delete, the
\* lookup Get and Delete share finds a key exactly when an element with an
\* equal key is in the chain of index Hash(key) mod N, and the found a Get or
\* Delete returned is the one of a container that scans nothing.
C19_EarlyExitSound ==
    \A t \in DOMAIN dicts :
        /\ \A key \in KeySet : Finds(t, key) <=> Present(t, key)
        /\ local[t].pc = "idle" => local[t].found = local[t].want[2]

\* A lookup has found its key in a chain whose front is less than it, while
\* the lookup of the absent key 0 stops at the element after the front.
C19_Witness ==
    /\ local[1].pc = "idle"
    /\ local[1].found
    /\ local[1].want = <<2, TRUE>>
    /\ dicts[1].numBuckets = 1
    /\ ChainKeys(1, 1) = <<-1, 1>>
    /\ ~Finds(1, 0)

\* What Get(key) returns from goroutine t's dictionary as it is.
Reads(t, key) ==
    LET g == SortedGetElement(items, dicts[t], key)
    IN  IF g.e = 0 THEN <<Nil, FALSE>>
        ELSE <<items[dicts[t].buckets[g.n][g.e]].value, TRUE>>

\* Goroutine t is inside the Set or Delete that has put the item at position
\* p of chain n in the pool and has not yet unlinked it.
Unlinking(t, n, p) ==
    /\ local[t].pc \in {"replace", "remove"}
    /\ local[t].n = n
    /\ local[t].e = p

\* Goroutine u has the item in its local i and a use of it ahead: after its
\* itemPool.Put(i), Delete has none.
Holds(u, id) == local[u].i = id /\ local[u].pc # "remove"

\* The item at position p of chain n of goroutine t is also somewhere else:
\* in the pool, in the hands of another goroutine, or the value of another
\* chain element that is not being unlinked.
HandedOut(t, n, p) ==
    LET id == dicts[t].buckets[n][p]
    IN  \/ id \in itemPool
        \/ \E u \in DOMAIN local : u # t /\ Holds(u, id)
        \/ \E u \in DOMAIN dicts : \E m \in 1..dicts[u].numBuckets :
              \E q \in 1..Len(dicts[u].buckets[m]) :
                 /\ <<u, m, q>> # <<t, n, p>>
                 /\ dicts[u].buckets[m][q] = id
                 /\ ~Unlinking(u, m, q)

\* C20: with one itemPool for two goroutines that each use a Dictionary of
\* their own, an item that is the value of a chain element is in the pool or
\* in other hands only while the Set or Delete that put it there has not
\* returned; and between its calls every goroutine has got, and would get
\* from Get, what a container without a pool returns.
C20_PoolKeepsLiveEntries ==
    \A t \in DOMAIN dicts :
        /\ \A n \in 1..dicts[t].numBuckets :
              \A p \in 1..Len(dicts[t].buckets[n]) :
                 Unlinking(t, n, p) \/ ~HandedOut(t, n, p)
        /\ local[t].pc = "idle" =>
              /\ <<local[t].v, local[t].found>> = local[t].want
              /\ \A key \in PoolKeys : Reads(t, key) = RefGet(ref[t], key)

\* Goroutine 1 is in a Delete that has put its item in the pool; goroutine 2
\* has taken that item for a Set and written its own key and value to it
\* while it is still in goroutine 1's chain; goroutine 1 holds another entry.
C20_Witness ==
    /\ local[1].pc = "remove"
    /\ local[2].pc = "link"
    /\ local[2].i = dicts[1].buckets[local[1].n][local[1].e]
    /\ items[local[2].i].value = 2
    /\ Len(dicts[1].buckets[local[1].n]) = 2
    /\ \E key \in PoolKeys : ref[2][key] # Nil

====
